---- MODULE Spec2Model ----
(***************************************************************************)
(* Dental chart generator (src/app.py): the tooth-list parser              *)
(* parse_teeth_numbers, the bridge parser parse_bridges, the assembly of   *)
(* dental_modifications in draw_dental_chart and the two button handlers.  *)
(*                                                                         *)
(* A text is a sequence of one-character strings.  Whitespace is the       *)
(* space character.  A raised ValueError is a flag of the returned record. *)
(***************************************************************************)
EXTENDS Integers, Sequences, FiniteSets, TLC

VARIABLES text, jaw, pc, ret, fields, edits, status, parsed, chart

vars == <<text, jaw, pc, ret, fields, edits, status, parsed, chart>>

(***************************************************************************)
(* Characters and the str methods the parsers use.                         *)
(***************************************************************************)
DecimalChars == <<"0", "1", "2", "3", "4", "5", "6", "7", "8", "9">>

Decimals == {DecimalChars[i] : i \in 1..10}

\* U+00B2: str.isdigit() is True for it, int() rejects it.
SuperTwo == "²"

DigitVal(c) == (CHOOSE i \in 1..10 : DecimalChars[i] = c) - 1

\* c.isdigit() for one character
IsDigitChar(c) == c \in Decimals \cup {SuperTwo}

\* s.isdigit(): non-empty and every character a digit
IsDigitStr(s) == Len(s) > 0 /\ \A i \in 1..Len(s) : IsDigitChar(s[i])

Contains(s, c) == \E i \in 1..Len(s) : s[i] = c

RECURSIVE LStrip(_)
LStrip(s) == IF s # <<>> /\ Head(s) = " " THEN LStrip(Tail(s)) ELSE s

RECURSIVE RStrip(_)
RStrip(s) ==
    IF s # <<>> /\ s[Len(s)] = " " THEN RStrip(SubSeq(s, 1, Len(s) - 1)) ELSE s

\* s.strip()
Strip(s) == RStrip(LStrip(s))

\* s.split(sep) for a one-character separator: always at least one part
RECURSIVE SplitFrom(_, _, _, _)
SplitFrom(s, sep, i, cur) ==
    IF i > Len(s) THEN <<cur>>
    ELSE IF s[i] = sep THEN <<cur>> \o SplitFrom(s, sep, i + 1, <<>>)
    ELSE SplitFrom(s, sep, i + 1, Append(cur, s[i]))

Split(s, sep) == SplitFrom(s, sep, 1, <<>>)

\* s.split(): the maximal runs of non-whitespace characters
SplitWhitespace(s) == SelectSeq(Split(s, " "), LAMBDA p : p # <<>>)

RECURSIVE DecimalValue(_, _)
DecimalValue(s, acc) ==
    IF s = <<>> THEN acc
    ELSE IF Head(s) = "_" THEN DecimalValue(Tail(s), acc)
    ELSE DecimalValue(Tail(s), 10 * acc + DigitVal(Head(s)))

\* The digit part of an integer literal: decimal digits, single underscores
\* allowed between digits.
IsDigitBody(s) ==
    /\ s # <<>>
    /\ \A i \in 1..Len(s) : s[i] \in Decimals \cup {"_"}
    /\ s[1] # "_"
    /\ s[Len(s)] # "_"
    /\ \A i \in 1..(Len(s) - 1) : ~(s[i] = "_" /\ s[i + 1] = "_")

\* int(s): ok = FALSE stands for ValueError
IntParse(s) ==
    LET t == Strip(s)
        signed == t # <<>> /\ Head(t) \in {"+", "-"}
        body == IF signed THEN Tail(t) ELSE t
    IN  IF IsDigitBody(body)
        THEN [ok |-> TRUE,
              val |-> IF signed /\ Head(t) = "-"
                      THEN 0 - DecimalValue(body, 0)
                      ELSE DecimalValue(body, 0)]
        ELSE [ok |-> FALSE, val |-> 0]

\* str(n) for n >= 0
RECURSIVE Str(_)
Str(n) ==
    IF n < 10 THEN <<DecimalChars[n + 1]>>
    ELSE Append(Str(n \div 10), DecimalChars[(n % 10) + 1])

\* ",".join(parts)
RECURSIVE Join(_)
Join(parts) ==
    IF parts = <<>> THEN <<>>
    ELSE IF Len(parts) = 1 THEN parts[1]
    ELSE parts[1] \o <<",">> \o Join(Tail(parts))

(***************************************************************************)
(* Tooth ranges.                                                           *)
(***************************************************************************)
Jaws == {"maxillary", "mandibular", "none"}

valid_teeth == 1..32

maxillary_teeth == 1..16

mandibular_teeth == 17..32

(***************************************************************************)
(* parse_teeth_numbers                                                     *)
(***************************************************************************)
\* The guard with the length test lost.
RecoveryGateAnyLength(t) ==
    /\ Len(Strip(t)) > 0
    /\ ~Contains(t, ",")
    /\ \A i \in 1..Len(Strip(t)) : IsDigitChar(Strip(t)[i])

\* The guard of the missing-comma heuristic.
RecoveryGate(t) ==
    /\ Len(Strip(t)) > 2
    /\ ~Contains(t, ",")
    /\ \A i \in 1..Len(Strip(t)) : IsDigitChar(Strip(t)[i])

\* The accumulated number is a tooth number
PieceIsTooth(n) == n \in valid_teeth

\* The accumulator is given up
PieceTooLong(cur) == Len(cur) > 2

\* The loop over the characters of the stripped text.  raised: int() of the
\* accumulator raised ValueError.
RECURSIVE RecoveryScan(_, _, _, _)

\* One character appended to the accumulator, n being int(current_num).
ScanStep(s, i, current_num, possible_teeth, n) ==
    IF ~n.ok
    THEN [teeth |-> possible_teeth, rest |-> current_num, raised |-> TRUE]
    ELSE IF PieceIsTooth(n.val)
    THEN RecoveryScan(s, i + 1, <<>>, Append(possible_teeth, n.val))
    ELSE IF PieceTooLong(current_num)
    THEN [teeth |-> <<>>, rest |-> current_num, raised |-> FALSE]
    ELSE RecoveryScan(s, i + 1, current_num, possible_teeth)

RecoveryScan(s, i, current_num, possible_teeth) ==
    IF i > Len(s)
    THEN [teeth |-> possible_teeth, rest |-> current_num, raised |-> FALSE]
    ELSE ScanStep(s, i, Append(current_num, s[i]), possible_teeth,
                  IntParse(Append(current_num, s[i])))

JoinTeeth(teeth) == Join([i \in 1..Len(teeth) |-> Str(teeth[i])])

\* The outcome of the heuristic, r being the outcome of the scan.
AfterScan(t, r) ==
    IF r.raised THEN [text |-> t, recovered |-> FALSE, raised |-> TRUE]
    ELSE IF r.teeth # <<>> /\ r.rest = <<>>
    THEN [text |-> JoinTeeth(r.teeth), recovered |-> TRUE, raised |-> FALSE]
    ELSE [text |-> t, recovered |-> FALSE, raised |-> FALSE]

\* The outcome of the heuristic: the text normal parsing goes on with.
Recovery(t) ==
    IF ~RecoveryGate(t)
    THEN [text |-> t, recovered |-> FALSE, raised |-> FALSE]
    ELSE AfterScan(t, RecoveryScan(Strip(t), 1, <<>>, <<>>))

\* The validation with the lower-jaw test lost.
ToothCheckNoLower(tooth, j) ==
    IF tooth \notin valid_teeth THEN "range"
    ELSE IF j = "maxillary" /\ tooth \notin maxillary_teeth THEN "upper"
    ELSE "ok"

\* The validation with the range test starting at 0.
ToothCheckFromZero(tooth, j) ==
    IF tooth \notin 0..32 THEN "range"
    ELSE IF j = "maxillary" /\ tooth \notin 0..16 THEN "upper"
    ELSE IF j = "mandibular" /\ tooth \notin mandibular_teeth THEN "lower"
    ELSE "ok"

\* The validation of one tooth: "ok" or the kind of the error appended.
ToothCheck(tooth, j) ==
    IF tooth \notin valid_teeth THEN "range"
    ELSE IF j = "maxillary" /\ tooth \notin maxillary_teeth THEN "upper"
    ELSE IF j = "mandibular" /\ tooth \notin mandibular_teeth THEN "lower"
    ELSE "ok"

\* result.append(tooth) that skips a tooth already in the list.
AppendToothOnce(result, tooth) ==
    IF \E i \in 1..Len(result) : result[i] = tooth THEN result
    ELSE Append(result, tooth)

\* result.append(tooth)
AppendTooth(result, tooth) == Append(result, tooth)

\* The loop over text.split(','); invalid: int() raised ValueError.
RECURSIVE TeethLoop(_, _, _, _, _)

\* One non-empty segment, n being int(tooth_str).
ToothStep(segs, i, j, result, errors, n) ==
    IF ~n.ok
    THEN [result |-> result, errors |-> errors, invalid |-> TRUE]
    ELSE IF ToothCheck(n.val, j) # "ok"
    THEN TeethLoop(segs, i + 1, j, result,
             Append(errors, [kind |-> ToothCheck(n.val, j), tooth |-> n.val]))
    ELSE TeethLoop(segs, i + 1, j, AppendTooth(result, n.val), errors)

TeethLoop(segs, i, j, result, errors) ==
    IF i > Len(segs)
    THEN [result |-> result, errors |-> errors, invalid |-> FALSE]
    ELSE IF Strip(segs[i]) = <<>>
    THEN TeethLoop(segs, i + 1, j, result, errors)
    ELSE ToothStep(segs, i, j, result, errors, IntParse(Strip(segs[i])))

\* The line printed when the heuristic rewrote the text.
RecoveryInfo(rec) ==
    IF rec.recovered THEN <<[kind |-> "reinterpreted", tooth |-> 0]>>
    ELSE <<>>

\* What the function returns and prints, rec being the outcome of the
\* heuristic and loop the outcome of the loop.  result: the returned list;
\* diags: the printed diagnostics in order (the "Validation errors:" header
\* line is the heading of the error lines, not a diagnostic of its own);
\* raised: a ValueError left the function; recovered, text: the heuristic
\* rewrote the text, and to what.
TeethReturn(rec, loop) ==
    IF loop.invalid
    THEN [result |-> <<>>,
          diags |-> Append(RecoveryInfo(rec),
                           [kind |-> "invalid", tooth |-> 0]),
          raised |-> FALSE, recovered |-> rec.recovered, text |-> rec.text]
    ELSE [result |-> loop.result, diags |-> RecoveryInfo(rec) \o loop.errors,
          raised |-> FALSE, recovered |-> rec.recovered, text |-> rec.text]

\* The function after the heuristic.
TeethAfterRecovery(t, j, rec) ==
    IF rec.raised
    THEN [result |-> <<>>, diags |-> <<>>, raised |-> TRUE,
          recovered |-> FALSE, text |-> t]
    ELSE TeethReturn(rec, TeethLoop(Split(rec.text, ","), 1, j, <<>>, <<>>))

parse_teeth_numbers(t, j) ==
    IF Strip(t) = <<>>
    THEN [result |-> <<>>, diags |-> <<>>, raised |-> FALSE,
          recovered |-> FALSE, text |-> t]
    ELSE TeethAfterRecovery(t, j, Recovery(t))

(***************************************************************************)
(* parse_bridges                                                           *)
(***************************************************************************)
\* What one stripped segment yields.  kind is "pair" (start and end were
\* assigned), "whole" (the whole field is one bare pair: the loop ends),
\* "none" (start and end stay None) or "error" (ValueError).
NoPair == [kind |-> "none", start |-> 0, end |-> 0]

PairError == [kind |-> "error", start |-> 0, end |-> 0]

\* The pair with its endpoints put in ascending order.
PairOfSorted(kind, x, y) ==
    IF x.ok /\ y.ok
    THEN [kind |-> kind, start |-> IF x.val <= y.val THEN x.val ELSE y.val,
          end |-> IF x.val <= y.val THEN y.val ELSE x.val]
    ELSE [kind |-> "error", start |-> 0, end |-> 0]

\* start_tooth and end_tooth assigned, x and y being the two int() calls
PairOf(kind, x, y) ==
    IF x.ok /\ y.ok THEN [kind |-> kind, start |-> x.val, end |-> y.val]
    ELSE PairError

\* start_tooth = int(a.strip()); end_tooth = int(b.strip())
TwoInts(kind, a, b) == PairOf(kind, IntParse(Strip(a)), IntParse(Strip(b)))

\* parts of the right number become a pair
PairOfParts(kind, parts, otherwise) ==
    IF Len(parts) = 2 THEN TwoInts(kind, parts[1], parts[2]) ELSE otherwise

\* start, end = bridge_pair.split('-'): anything but two parts is a
\* ValueError of the unpacking
HyphenPair(bridge_pair) ==
    PairOfParts("pair", Split(bridge_pair, "-"), PairError)

SpacePair(bridge_pair) ==
    PairOfParts("pair", SplitWhitespace(bridge_pair), NoPair)

\* [p.strip() for p in text.split(',')]
StripAll(parts) == [i \in 1..Len(parts) |-> Strip(parts[i])]

AllDigitStrs(all_parts) ==
    \A i \in 1..Len(all_parts) : IsDigitStr(all_parts[i])

\* The bare pair handed on as the pair of its segment, the loop going on.
WholeFieldPartsAsPair(all_parts) ==
    IF AllDigitStrs(all_parts) THEN PairOfParts("pair", all_parts, NoPair)
    ELSE NoPair

WholeFieldParts(all_parts) ==
    IF AllDigitStrs(all_parts) THEN PairOfParts("whole", all_parts, NoPair)
    ELSE NoPair

WholeFieldPair(t) == WholeFieldParts(StripAll(Split(t, ",")))

ExtractPair(bridge_pair, t) ==
    IF Contains(bridge_pair, "-") THEN HyphenPair(bridge_pair)
    ELSE IF Contains(bridge_pair, " ") THEN SpacePair(bridge_pair)
    ELSE IF Contains(t, ",") /\ Len(Split(t, ",")) = 2
            /\ ~Contains(bridge_pair, ",")
    THEN WholeFieldPair(t)
    ELSE NoPair

\* if start_tooth and end_tooth: None and 0 are both false
HasPair(p) == p.kind = "pair" /\ p.start # 0 /\ p.end # 0

\* The validation of an extracted pair: "ok" or the kind of the error.
BridgeCheck(start_tooth, end_tooth, j) ==
    IF ~(1 <= start_tooth /\ start_tooth <= 32
         /\ 1 <= end_tooth /\ end_tooth <= 32)
    THEN "range"
    ELSE IF \/ (start_tooth \in maxillary_teeth
                /\ end_tooth \notin maxillary_teeth)
            \/ (start_tooth \in mandibular_teeth
                /\ end_tooth \notin mandibular_teeth)
    THEN "samejaw"
    ELSE IF j = "maxillary" /\ (start_tooth \notin maxillary_teeth
                                \/ end_tooth \notin maxillary_teeth)
    THEN "upper"
    ELSE IF j = "mandibular" /\ (start_tooth \notin mandibular_teeth
                                 \/ end_tooth \notin mandibular_teeth)
    THEN "lower"
    ELSE "ok"

\* The loop over text.split(',').
RECURSIVE BridgeLoop(_, _, _, _, _, _)

\* One non-empty segment, p being what was extracted from it.
BridgeStep(segs, i, t, j, bridges, errors, p) ==
    IF p.kind = "error"
    THEN [bridges |-> bridges, errors |-> errors, invalid |-> TRUE]
    ELSE IF p.kind = "whole"
    THEN [bridges |-> << <<p.start, p.end>> >>, errors |-> errors,
          invalid |-> FALSE]
    ELSE IF ~HasPair(p)
    THEN BridgeLoop(segs, i + 1, t, j, bridges, errors)
    ELSE IF BridgeCheck(p.start, p.end, j) # "ok"
    THEN BridgeLoop(segs, i + 1, t, j, bridges,
             Append(errors, [kind |-> BridgeCheck(p.start, p.end, j),
                             start |-> p.start, end |-> p.end]))
    ELSE BridgeLoop(segs, i + 1, t, j, Append(bridges, <<p.start, p.end>>),
                    errors)

BridgeLoop(segs, i, t, j, bridges, errors) ==
    IF i > Len(segs)
    THEN [bridges |-> bridges, errors |-> errors, invalid |-> FALSE]
    ELSE IF Strip(segs[i]) = <<>>
    THEN BridgeLoop(segs, i + 1, t, j, bridges, errors)
    ELSE BridgeStep(segs, i, t, j, bridges, errors,
                    ExtractPair(Strip(segs[i]), t))

ErrorKinds(errors) == [i \in 1..Len(errors) |-> errors[i].kind]

\* What the function returns and prints, loop being the outcome of the
\* loop.  result: the returned list of (start, end); errors: the error lines
\* printed; diags: everything printed, in order ("detected" is the "Bridges
\* detected" line); raised: a ValueError left the function.
BridgesReturn(loop) ==
    IF loop.invalid
    THEN [result |-> <<>>, errors |-> <<>>, diags |-> <<"invalid">>,
          raised |-> FALSE]
    ELSE [result |-> loop.bridges, errors |-> loop.errors,
          diags |-> IF loop.bridges # <<>>
                    THEN Append(ErrorKinds(loop.errors), "detected")
                    ELSE ErrorKinds(loop.errors),
          raised |-> FALSE]

parse_bridges(t, j) ==
    IF Strip(t) = <<>>
    THEN [result |-> <<>>, errors |-> <<>>, diags |-> <<>>, raised |-> FALSE]
    ELSE BridgesReturn(BridgeLoop(Split(t, ","), 1, t, j, <<>>, <<>>))

(***************************************************************************)
(* draw_dental_chart: the dental_modifications dictionary.                 *)
(***************************************************************************)
\* set(list)
ToSet(list) == {list[i] : i \in 1..Len(list)}

dental_modifications(maxillary_missing, maxillary_implant, maxillary_extracted, maxillary_bridges, maxillary_crown, maxillary_rct, maxillary_filling, mandibular_missing, mandibular_implant, mandibular_extracted, mandibular_bridges, mandibular_crown, mandibular_rct, mandibular_filling) ==
    [maxillary |->
        [missing |-> ToSet(maxillary_missing),
         implant |-> ToSet(maxillary_implant),
         extracted |-> ToSet(maxillary_extracted),
         bridges |-> maxillary_bridges,
         crown |-> ToSet(maxillary_crown),
         rct |-> ToSet(maxillary_rct),
         filling |-> ToSet(maxillary_filling)],
     mandibular |->
        [missing |-> ToSet(mandibular_missing),
         implant |-> ToSet(mandibular_implant),
         extracted |-> ToSet(mandibular_extracted),
         bridges |-> mandibular_bridges,
         crown |-> ToSet(mandibular_crown),
         rct |-> ToSet(mandibular_rct),
         filling |-> ToSet(mandibular_filling)]]

(***************************************************************************)
(* The form: the fourteen text widgets, in the order                       *)
(* on_generate_button_clicked parses them.                                 *)
(***************************************************************************)
GenerateOrder ==
    <<"max_missing", "max_implant", "max_extracted", "max_crown", "max_rct",
      "max_filling", "max_bridges", "mand_missing", "mand_implant",
      "mand_extracted", "mand_crown", "mand_rct", "mand_filling",
      "mand_bridges">>

FieldNames == {GenerateOrder[i] : i \in 1..Len(GenerateOrder)}

BridgeFields == {"max_bridges", "mand_bridges"}

\* The jaw argument the handler passes with each field
FieldJaw(f) ==
    IF f \in {GenerateOrder[i] : i \in 1..7} THEN "maxillary" ELSE "mandibular"

FieldIndex(f) == CHOOSE i \in 1..Len(GenerateOrder) : GenerateOrder[i] = f

\* The call the handler makes for field f
ParseField(f, value) ==
    IF f \in BridgeFields THEN parse_bridges(value, FieldJaw(f))
    ELSE parse_teeth_numbers(value, FieldJaw(f))

NotParsed == [state |-> "none", result |-> <<>>, diags |-> <<>>]

NoChart == [maxillary |-> "none", mandibular |-> "none"]

NoReturn == [result |-> <<>>, diags |-> <<>>, raised |-> FALSE]

(***************************************************************************)
(* Bounds and the inputs drawn.                                            *)
(***************************************************************************)
MaxLen == 4

MaxPairs == 2

MaxItems == 3

MaxEdits == 2

Alphabet == {"0", "1", "2", "3", ",", "-", " ", "x", SuperTwo}

\* every text of at most MaxLen characters of Alphabet
ShortTexts == UNION {[1..n -> Alphabet] : n \in 0..MaxLen}

\* the texts of the documentation and of the widgets' placeholders
Examples ==
    {<<"1", ",", "4", ",", "7">>,
     <<"1", "4", "7">>,
     <<"1", "2", "3", "4">>,
     <<"0", "0", "1", "2">>,
     <<"3", "3">>,
     <<"1", "7">>,
     <<"3", "2">>,
     <<"1", "6", ",", "1", "7">>,
     <<"1", "0", "-", "1", "2">>,
     <<"1", "2", "-", "1", "0">>,
     <<"1", "0", ",", "1", "2">>,
     <<"1", "0", "-", "1", "2", ",", "1", "4", "-", "1", "6">>,
     <<"1", "-", "2", "0">>,
     <<"1", "0", " ", "1", "2">>,
     <<"1", ",", "2", ",", "3">>,
     <<"1", "0", ",", "1", "2", ",", "1", "4">>,
     <<"1", "-", "-", "2", ",", "3", "-", "1">>}

EndpointTokens == {<<"1">>, <<"3">>, <<"3", "0">>, <<"0">>, <<"3", "3">>}

HyphenPairs == {a \o <<"-">> \o b : a \in EndpointTokens, b \in EndpointTokens}

ToothTokens ==
    {<<"1">>, <<"1", "3">>, <<"3", "0">>, <<"3", "3">>, <<"0">>}

\* the comma-joined lists of 1..n elements of toks
RECURSIVE ListsOf(_, _)
ListsOf(toks, n) ==
    IF n <= 1 THEN toks
    ELSE LET shorter == ListsOf(toks, n - 1)
         IN  shorter \cup {l \o <<",">> \o x : l \in shorter, x \in toks}

Texts ==
    ShortTexts \cup Examples \cup ListsOf(HyphenPairs, MaxPairs)
    \cup ListsOf(ToothTokens, MaxItems)

\* the values typed into a widget of the form
FormTexts ==
    {<<"1", ",", "3">>,
     <<"3", "0", ",", "x">>,
     <<"1", "²", "3">>,
     <<"3", "0", "-", "3", "1">>}

(***************************************************************************)
(* Calls of the two parsers.                                               *)
(***************************************************************************)
EmptyForm ==
    /\ fields = [f \in FieldNames |-> <<>>]
    /\ edits = 0
    /\ status = "idle"
    /\ parsed = [f \in FieldNames |-> NotParsed]
    /\ chart = NoChart

Init ==
    /\ text \in Texts
    /\ jaw \in Jaws
    /\ pc = "call"
    /\ ret = NoReturn
    /\ EmptyForm

CallParseTeeth ==
    /\ pc = "call"
    /\ ret' = parse_teeth_numbers(text, jaw)
    /\ pc' = "teeth"
    /\ UNCHANGED <<text, jaw, fields, edits, status, parsed, chart>>

CallParseBridges ==
    /\ pc = "call"
    /\ ret' = parse_bridges(text, jaw)
    /\ pc' = "bridges"
    /\ UNCHANGED <<text, jaw, fields, edits, status, parsed, chart>>

Next == CallParseTeeth \/ CallParseBridges

Spec == Init /\ [][Next]_vars

(***************************************************************************)
(* The form and its two buttons.                                           *)
(***************************************************************************)
FormInit ==
    /\ text = <<>>
    /\ jaw = "none"
    /\ pc = "form"
    /\ ret = NoReturn
    /\ EmptyForm

\* The user edits one widget.
SetField(f, value) ==
    /\ edits < MaxEdits
    /\ fields[f] # value
    /\ fields' = [fields EXCEPT ![f] = value]
    /\ edits' = edits + 1
    /\ UNCHANGED <<text, jaw, pc, ret, status, parsed, chart>>

\* The fourteen calls of the handler, each with what it returns
ParseAll(values) == [f \in FieldNames |-> ParseField(f, values[f])]

\* The index of the first call that raises, 0 when none does.
FirstRaise(returns) ==
    IF \A f \in FieldNames : ~returns[f].raised THEN 0
    ELSE CHOOSE i \in 1..Len(GenerateOrder) :
            /\ returns[GenerateOrder[i]].raised
            /\ \A k \in 1..(i - 1) : ~returns[GenerateOrder[k]].raised

\* What the handler has parsed when it ends, stop being the index of the
\* call that raised: the fields after it are never parsed.
ParsedFields(returns, stop) ==
    [f \in FieldNames |->
        IF stop # 0 /\ FieldIndex(f) > stop THEN NotParsed
        ELSE IF stop # 0 /\ FieldIndex(f) = stop
        THEN [state |-> "raised", result |-> <<>>, diags |-> <<>>]
        ELSE [state |-> "parsed", result |-> returns[f].result,
              diags |-> returns[f].diags]]

\* The handler, returns being what the calls it makes return.
Generate(returns) ==
    /\ parsed' = ParsedFields(returns, FirstRaise(returns))
    /\ IF FirstRaise(returns) = 0
       THEN /\ chart' = dental_modifications(
                    returns["max_missing"].result,
                    returns["max_implant"].result,
                    returns["max_extracted"].result,
                    returns["max_bridges"].result,
                    returns["max_crown"].result, returns["max_rct"].result,
                    returns["max_filling"].result,
                    returns["mand_missing"].result,
                    returns["mand_implant"].result,
                    returns["mand_extracted"].result,
                    returns["mand_bridges"].result,
                    returns["mand_crown"].result, returns["mand_rct"].result,
                    returns["mand_filling"].result)
            /\ status' = "drawn"
       ELSE /\ chart' = NoChart
            /\ status' = "error"
    /\ UNCHANGED <<text, jaw, pc, ret, fields, edits>>

on_generate_button_clicked == Generate(ParseAll(fields))

on_reset_button_clicked ==
    /\ fields' = [f \in FieldNames |-> <<>>]
    /\ parsed' = [f \in FieldNames |-> NotParsed]
    /\ chart' = NoChart
    /\ status' = "reset"
    /\ UNCHANGED <<text, jaw, pc, ret, edits>>

FormNext ==
    \/ \E f \in FieldNames, value \in FormTexts \cup {<<>>} : SetField(f, value)
    \/ on_generate_button_clicked
    \/ on_reset_button_clicked

FormSpec == FormInit /\ [][FormNext]_vars

(***************************************************************************)
(* What the documentation says of the parsers, stated on the texts alone.  *)
(***************************************************************************)
JawHalf(j) ==
    CASE j = "maxillary" -> 1..16
      [] j = "mandibular" -> 17..32
      [] OTHER -> 1..32

\* the non-empty comma-separated entries of a text
Entries(t) == SelectSeq(Split(t, ","), LAMBDA p : Strip(p) # <<>>)

AllEntriesIntegers(t) == \A i \in 1..Len(Entries(t)) : IntParse(Entries(t)[i]).ok

ListedIntegers(t) == [i \in 1..Len(Entries(t)) |-> IntParse(Entries(t)[i]).val]

\* a valid tooth list of jaw j: every entry an integer of the jaw's half
ValidToothList(t, j) ==
    /\ AllEntriesIntegers(t)
    /\ \A i \in 1..Len(Entries(t)) : ListedIntegers(t)[i] \in JawHalf(j)

\* a comma-less run of more than two decimal digits
LongDigitRun(t) ==
    /\ Len(Strip(t)) > 2
    /\ ~Contains(t, ",")
    /\ \A i \in 1..Len(Strip(t)) : Strip(t)[i] \in Decimals

DiagTeeth(diags) == [i \in 1..Len(diags) |-> diags[i].tooth]

\* a bridge span as the data model defines it, in jaw context j
SpanValid(p, j) ==
    /\ p[1] \in 1..32
    /\ p[2] \in 1..32
    /\ (p[1] <= 16) <=> (p[2] <= 16)
    /\ p[1] \in JawHalf(j)
    /\ p[2] \in JawHalf(j)

\* C1: every span parse_bridges returns has both endpoints in [1,32], in the
\* same jaw half and, with a jaw context, in that jaw's half, whatever format
\* the pair was written in.
C1_SpansValid ==
    pc = "bridges" =>
        \A i \in 1..Len(ret.result) : SpanValid(ret.result[i], jaw)

\* C2: every number parse_teeth_numbers returns lies in [1,32] and in the
\* half of the jaw context, and so does every member of the set the chart
\* builds from the returned list.
C2_TeethInJaw ==
    pc = "teeth" =>
        /\ \A i \in 1..Len(ret.result) :
              ret.result[i] \in 1..32 /\ ret.result[i] \in JawHalf(jaw)
        /\ ToSet(ret.result) \subseteq JawHalf(jaw)

\* C2 witness: a maxillary list of which one tooth was kept and a lower
\* tooth was dropped.
C2_Witness ==
    /\ pc = "teeth"
    /\ jaw = "maxillary"
    /\ ret.result # <<>>
    /\ \E i \in 1..Len(ret.diags) : ret.diags[i].kind = "upper"

\* C3 as stated: for every valid tooth list of the jaw, parse_teeth_numbers
\* returns exactly the listed integers in input order, with no diagnostic.
C3_ValidListAsListed ==
    (pc = "teeth" /\ ValidToothList(text, jaw)) =>
        /\ ~ret.raised
        /\ ret.result = ListedIntegers(text)
        /\ ret.diags = <<>>

\* C3 amended: for every valid tooth list of the jaw that is not a
\* comma-less run of more than two digits, parse_teeth_numbers returns
\* exactly the listed integers in input order (duplicates kept, not sorted),
\* with no diagnostic.
C3_ValidListAsListedNoRun ==
    (pc = "teeth" /\ ValidToothList(text, jaw) /\ ~LongDigitRun(text)) =>
        /\ ~ret.raised
        /\ ret.result = ListedIntegers(text)
        /\ ret.diags = <<>>

\* C3 witness: a valid list of several entries returned with a repeated
\* tooth and out of ascending order.
C3_Witness ==
    /\ pc = "teeth"
    /\ ValidToothList(text, jaw)
    /\ ~LongDigitRun(text)
    /\ Len(ret.result) >= 3
    /\ ret.result[1] > ret.result[2]
    /\ ret.result[1] = ret.result[3]

\* a tooth-list text with an entry that is not an integer
HasNonIntegerEntry(t) == Strip(t) # <<>> /\ ~AllEntriesIntegers(t)

\* a bridge text with a hyphen segment one part of which is not an integer
HasNonIntegerHyphenPart(t) ==
    /\ Strip(t) # <<>>
    /\ \E i \in 1..Len(Entries(t)) :
          /\ Contains(Entries(t)[i], "-")
          /\ \E k \in 1..Len(Split(Strip(Entries(t)[i]), "-")) :
                ~IntParse(Split(Strip(Entries(t)[i]), "-")[k]).ok

\* C4: a tooth-list entry, or a hyphen part of a bridge segment, that is not
\* an integer makes the parser return an empty result with one diagnostic
\* (and return, so that the other fields are parsed).
C4_NonIntegerEmptiesField ==
    /\ (pc = "teeth" /\ HasNonIntegerEntry(text)) =>
          /\ ~ret.raised
          /\ ret.result = <<>>
          /\ Len(ret.diags) = 1
          /\ ret.diags[1].kind = "invalid"
    /\ (pc = "bridges" /\ HasNonIntegerHyphenPart(text)) =>
          /\ ~ret.raised
          /\ ret.result = <<>>
          /\ ret.diags = <<"invalid">>

\* C5: for a text with a comma whose entries are all integers, the result is
\* the entries of [1,32] and of the jaw's half, in input order, and the
\* diagnostics are the dropped entries, one each, in input order.
C5_DropsOnlyInvalid ==
    (pc = "teeth" /\ Contains(text, ",") /\ AllEntriesIntegers(text)) =>
        /\ ~ret.raised
        /\ ret.result =
              SelectSeq(ListedIntegers(text), LAMBDA n : n \in JawHalf(jaw))
        /\ DiagTeeth(ret.diags) =
              SelectSeq(ListedIntegers(text), LAMBDA n : n \notin JawHalf(jaw))

\* C5 witness: a list whose first entry was dropped and whose last entry
\* was kept.
C5_Witness ==
    /\ pc = "teeth"
    /\ Contains(text, ",")
    /\ AllEntriesIntegers(text)
    /\ Len(ListedIntegers(text)) >= 2
    /\ ListedIntegers(text)[1] \notin JawHalf(jaw)
    /\ ret.diags # <<>>
    /\ ret.result # <<>>
    /\ ret.result[Len(ret.result)] =
          ListedIntegers(text)[Len(ListedIntegers(text))]

\* the cut of a digit string into pieces of one or two digits, each the
\* shortest prefix of the rest with a value in [1,32]
RECURSIVE ShortestPieces(_)
ShortestPieces(s) ==
    IF s = <<>> THEN [ok |-> TRUE, vals |-> <<>>]
    ELSE LET n == IF DecimalValue(SubSeq(s, 1, 1), 0) \in 1..32 THEN 1
                  ELSE IF Len(s) >= 2
                          /\ DecimalValue(SubSeq(s, 1, 2), 0) \in 1..32
                  THEN 2 ELSE 0
             rest == ShortestPieces(SubSeq(s, n + 1, Len(s)))
         IN  IF n = 0 \/ ~rest.ok THEN [ok |-> FALSE, vals |-> <<>>]
             ELSE [ok |-> TRUE,
                   vals |-> <<DecimalValue(SubSeq(s, 1, n), 0)>> \o rest.vals]

\* C6: a comma-less run of more than two digits is recovered exactly when it
\* cuts into pieces of one or two digits, each the shortest prefix with a
\* value in [1,32]; the result with no jaw context is then the piece values
\* and one informational diagnostic is emitted; otherwise the text is parsed
\* as it stands.
C6_RecoveryPieces ==
    (pc = "teeth" /\ LongDigitRun(text)) =>
        LET g == ShortestPieces(Strip(text))
            v == DecimalValue(Strip(text), 0)
        IN  IF g.ok
            THEN /\ ret.recovered
                 /\ jaw = "none" => ret.result = g.vals
                 /\ ret.diags # <<>>
                 /\ ret.diags[1].kind = "reinterpreted"
                 /\ \A i \in 2..Len(ret.diags) :
                       ret.diags[i].kind # "reinterpreted"
            ELSE /\ ~ret.recovered
                 /\ ret.result = IF v \in JawHalf(jaw) THEN <<v>> ELSE <<>>

\* C7: when recovery rewrites the text, parsing the rewritten text gives the
\* same result for every jaw context and does not trigger recovery again.
C7_RecoveryFixedPoint ==
    (pc = "teeth" /\ ret.recovered) =>
        \A j \in Jaws :
            /\ parse_teeth_numbers(ret.text, j).result =
                  parse_teeth_numbers(text, j).result
            /\ ~parse_teeth_numbers(ret.text, j).recovered
            /\ parse_teeth_numbers(ret.text, j).text = ret.text

\* C7 witness: a run of digits recovered into several teeth.
C7_Witness ==
    /\ pc = "teeth"
    /\ ret.recovered
    /\ Len(ret.result) >= 2
    /\ ret.text # text

\* the hyphen parts of the entries of a bridge text
HyphenParts(t) ==
    [i \in 1..Len(Entries(t)) |-> Split(Strip(Entries(t)[i]), "-")]

\* a field of comma-separated pairs a-b with integer a and b
HyphenPairField(t) ==
    /\ Entries(t) # <<>>
    /\ \A i \in 1..Len(Entries(t)) :
          /\ Len(HyphenParts(t)[i]) = 2
          /\ IntParse(HyphenParts(t)[i][1]).ok
          /\ IntParse(HyphenParts(t)[i][2]).ok

ListedPairs(t) ==
    [i \in 1..Len(Entries(t)) |->
        <<IntParse(HyphenParts(t)[i][1]).val,
          IntParse(HyphenParts(t)[i][2]).val>>]

\* The case of C8 in which no segment has a second hyphen (no negative
\* endpoint): the result is the pairs that pass validation, in input order,
\* endpoints as entered, repeated pairs kept.
C8_HyphenPairsInOrder ==
    (pc = "bridges" /\ HyphenPairField(text)) =>
        /\ ~ret.raised
        /\ ret.result =
              SelectSeq(ListedPairs(text), LAMBDA p : SpanValid(p, jaw))

\* The case of C8_HyphenPairsInOrder reached: the same descending pair
\* entered twice and returned twice.
C8_Witness ==
    /\ pc = "bridges"
    /\ HyphenPairField(text)
    /\ Len(ret.result) = 2
    /\ ret.result[1] = ret.result[2]
    /\ ret.result[1][1] > ret.result[1][2]

\* s is a-b around its hyphen i, a and b integers (either may be negative)
IntegerPairAt(s, i) ==
    /\ s[i] = "-"
    /\ IntParse(SubSeq(s, 1, i - 1)).ok
    /\ IntParse(SubSeq(s, i + 1, Len(s))).ok

IsIntegerPair(s) == \E i \in 1..Len(s) : IntegerPairAt(s, i)

\* the pair <<a, b>> of a segment a-b
IntegerPair(s) ==
    LET i == CHOOSE k \in 1..Len(s) : IntegerPairAt(s, k)
    IN  <<IntParse(SubSeq(s, 1, i - 1)).val,
          IntParse(SubSeq(s, i + 1, Len(s))).val>>

\* a field of comma-separated pairs a-b with integer a and b
IntegerPairField(t) ==
    /\ Entries(t) # <<>>
    /\ \A i \in 1..Len(Entries(t)) : IsIntegerPair(Strip(Entries(t)[i]))

IntegerPairs(t) ==
    [i \in 1..Len(Entries(t)) |-> IntegerPair(Strip(Entries(t)[i]))]

\* C8: for a field of comma-separated hyphen pairs a-b with integer a and b
\* the result is exactly the pairs that pass validation, in input order,
\* endpoints as entered, repeated pairs kept.
C8_IntegerPairsInOrder ==
    (pc = "bridges" /\ IntegerPairField(text)) =>
        /\ ~ret.raised
        /\ ret.result =
              SelectSeq(IntegerPairs(text), LAMBDA p : SpanValid(p, jaw))

\* the candidate pairs of the segments of a field (hyphen and whitespace
\* formats), in input order
CandidatePairs(t) ==
    LET found == SelectSeq(
                    [i \in 1..Len(Entries(t)) |->
                        ExtractPair(Strip(Entries(t)[i]), t)],
                    LAMBDA p : p.kind = "pair")
    IN  [i \in 1..Len(found) |-> <<found[i].start, found[i].end>>]

\* no segment of the field fails as a whole or is the bare two-number field
SegmentsOnly(t) ==
    /\ Strip(t) # <<>>
    /\ \A i \in 1..Len(Entries(t)) :
          ExtractPair(Strip(Entries(t)[i]), t).kind \in {"pair", "none"}

\* C9: every candidate pair that fails validation is dropped with exactly
\* one diagnostic, the other pairs being returned; no pair is dropped without
\* a diagnostic.
C9_DroppedPairsDiagnosed ==
    (pc = "bridges" /\ SegmentsOnly(text)) =>
        /\ ret.result =
              SelectSeq(CandidatePairs(text), LAMBDA p : SpanValid(p, jaw))
        /\ [i \in 1..Len(ret.errors) |->
                <<ret.errors[i].start, ret.errors[i].end>>] =
              SelectSeq(CandidatePairs(text), LAMBDA p : ~SpanValid(p, jaw))

\* C10: no field text makes a parser raise: a generate request parses every
\* field and draws the chart.
C10_GenerateNeverRaises ==
    /\ status # "error"
    /\ \A f \in FieldNames : parsed[f].state # "raised"
    /\ status = "drawn" => \A f \in FieldNames : parsed[f].state = "parsed"

\* a bridge text no segment of which has a hyphen or a space inside
BareSegments(t) ==
    /\ Strip(t) # <<>>
    /\ \A i \in 1..Len(Split(t, ",")) :
          /\ ~Contains(Strip(Split(t, ",")[i]), "-")
          /\ ~Contains(Strip(Split(t, ",")[i]), " ")

\* a non-empty string of decimal digits
BareNumber(s) == s # <<>> /\ \A i \in 1..Len(s) : s[i] \in Decimals

\* the stripped comma-separated parts of a text, empty ones included
FieldParts(t) == [i \in 1..Len(Split(t, ",")) |-> Strip(Split(t, ",")[i])]

AllBareNumbers(t) == \A i \in 1..Len(FieldParts(t)) : BareNumber(FieldParts(t)[i])

\* C11: a bridge field without hyphen or inner whitespace yields a bridge
\* only when the whole field is exactly two comma-separated bare digit
\* strings; the result is then that one pair, in the order entered; a field
\* of three or more bare numbers yields no bridge and no diagnostic.
C11_BarePairOnly ==
    (pc = "bridges" /\ BareSegments(text)) =>
        /\ ~ret.raised
        /\ IF Len(FieldParts(text)) = 2 /\ AllBareNumbers(text)
           THEN /\ ret.result =
                      << <<DecimalValue(FieldParts(text)[1], 0),
                           DecimalValue(FieldParts(text)[2], 0)>> >>
                /\ ret.errors = <<>>
           ELSE ret.result = <<>>
        /\ (Len(FieldParts(text)) >= 3 /\ AllBareNumbers(text)) =>
              ret.diags = <<>>

\* C11 witness: two bare numbers, the larger first, returned as one pair.
C11_Witness ==
    /\ pc = "bridges"
    /\ BareSegments(text)
    /\ Len(FieldParts(text)) = 2
    /\ AllBareNumbers(text)
    /\ Len(ret.result) = 1
    /\ ret.result[1][1] > ret.result[1][2]

\* C11 second case reached: three bare numbers, nothing returned or printed.
C11_ThreeNumbers ==
    /\ pc = "bridges"
    /\ Len(FieldParts(text)) = 3
    /\ AllBareNumbers(text)
    /\ ret.result = <<>>
    /\ ret.diags = <<>>

\* the index of the first hyphen of a segment that has one
FirstHyphen(s) == CHOOSE i \in 1..Len(s) : s[i] = "-" /\ \A k \in 1..(i - 1) : s[k] # "-"

\* the two parts of a segment around its first hyphen
FirstHyphenParts(s) ==
    <<SubSeq(s, 1, FirstHyphen(s) - 1), SubSeq(s, FirstHyphen(s) + 1, Len(s))>>

\* a bridge text every segment of which has a hyphen
AllHyphenSegments(t) ==
    /\ Entries(t) # <<>>
    /\ \A i \in 1..Len(Entries(t)) : Contains(Entries(t)[i], "-")

\* the integers of the two parts of every segment, split at the first hyphen
FirstHyphenInts(t) ==
    [i \in 1..Len(Entries(t)) |->
        <<IntParse(Strip(FirstHyphenParts(Strip(Entries(t)[i]))[1])),
          IntParse(Strip(FirstHyphenParts(Strip(Entries(t)[i]))[2]))>>]

FirstHyphenAllIntegers(t) ==
    \A i \in 1..Len(Entries(t)) :
        FirstHyphenInts(t)[i][1].ok /\ FirstHyphenInts(t)[i][2].ok

FirstHyphenPairs(t) ==
    [i \in 1..Len(Entries(t)) |->
        <<FirstHyphenInts(t)[i][1].val, FirstHyphenInts(t)[i][2].val>>]

\* C12: a hyphen segment is split at its first hyphen and both parts are
\* parsed as integers; the field fails only when a part is not an integer;
\* when both are integers (a negative second part included) the pair only
\* goes through validation: an invalid pair is dropped with a diagnostic and
\* the pairs of the other segments are returned.
C12_FirstHyphenSplit ==
    (pc = "bridges" /\ AllHyphenSegments(text)
        /\ FirstHyphenAllIntegers(text)) =>
        /\ ~ret.raised
        /\ ret.diags # <<"invalid">>
        /\ ret.result =
              SelectSeq(FirstHyphenPairs(text), LAMBDA p : SpanValid(p, jaw))
        /\ \A i \in 1..Len(Entries(text)) :
              FirstHyphenPairs(text)[i][2] < 0 =>
                 \E k \in 1..Len(ret.errors) :
                    /\ ret.errors[k].start = FirstHyphenPairs(text)[i][1]
                    /\ ret.errors[k].end = FirstHyphenPairs(text)[i][2]

====
